---- MODULE Spec2Model ----
(***************************************************************************)
(* CQue::List<T, Allocator> of include/Containers.hpp as a state machine.  *)
(*                                                                         *)
(* The element type T is modelled by the integers 0..MaxVal with T() = 0   *)
(* and the natural order of the integers as operator< / operator==.        *)
(* std::size_t is modelled by the integers modulo 2^SizeBits.              *)
(*                                                                         *)
(* A list object is a record                                               *)
(*   _Capacity, _Count : as in the class                                   *)
(*   _Elems            : the slots of the buffer _Elems points to, slot    *)
(*                       i of the code being _Elems[i + 1] here; a slot    *)
(*                       that holds no constructed T holds Uninit          *)
(*   isNull            : _Elems == nullptr                                 *)
(*   buf               : which buffer _Elems points to, 0 for nullptr: two *)
(*                       lists with the same buf point to the same buffer  *)
(*                                                                         *)
(* this is the list the member functions are called on; other is a second  *)
(* list, the argument of the copy and move operations.  frame holds the    *)
(* locals start and end of _HeapSort where its loop is followed turn by    *)
(* turn.                                                                   *)
(*                                                                         *)
(* Every public member function is one action.  An access outside the      *)
(* buffer is undefined behaviour: a write outside the buffer is lost, a    *)
(* read outside it yields an indeterminate value, the call is marked in    *)
(* ub, and the behaviour of the program is not followed past such a call.  *)
(***************************************************************************)
EXTENDS Integers, Sequences, FiniteSets, TLC

\* ------------------------------------------------------------ bounds
MaxVal == 2
MaxCap == 4
MaxSrc == 2
MaxBoth == 2
SizeBits == 5

SizeMod == 2 ^ SizeBits
Values == 0 .. MaxVal
DefaultT == 0
Uninit == -1
\* std::size_t arithmetic
Wrap(x) == x % SizeMod

\* (std::size_t)(-1)
npos == Wrap(-1)

VARIABLES this, other, call, ub, adds, onlyAdds, frame

vars == <<this, other, call, ub, adds, onlyAdds, frame>>

\* ------------------------------------------------------------ memory
allocate(n) == [k \in 1 .. n |-> Uninit]

\* the buffer _Alloc.allocate returns: one that no list points to
NewBuf == CHOOSE b \in 1 .. 3 : b # this.buf /\ b # other.buf

Rd(E, i) == IF i < Len(E) THEN E[i + 1] ELSE Uninit

Wr(E, i, v) == IF i < Len(E) THEN [E EXCEPT ![i + 1] = v] ELSE E

\* some slot of [lo, hi) lies outside buffer E
Oob(E, lo, hi) == lo < hi /\ hi > Len(E)

\* for (i = first; i < last; i++) construct_at(&dst[d + i - first], std::move(src[i]))
RECURSIVE MoveConstruct(_, _, _, _, _)
MoveConstruct(dst, src, first, last, d) ==
    IF first >= last THEN dst
    ELSE MoveConstruct(Wr(dst, d, Rd(src, first)), src, first + 1, last, Wrap(d + 1))

\* std::move(&E[first], &E[last], &E[d]): front to back, within one buffer
RECURSIVE std_move(_, _, _, _)
std_move(E, first, last, d) ==
    IF first >= last THEN E
    ELSE std_move(Wr(E, d, Rd(E, first)), first + 1, last, Wrap(d + 1))

\* std::move_backward with std::move's order: front to back into the same slots
std_move_backward_FrontToBack(E, first, last, d_last) ==
    std_move(E, first, last, d_last - (last - first))

\* std::move_backward(&E[first], &E[last], &E[d_last]): back to front
RECURSIVE std_move_backward(_, _, _, _)
std_move_backward(E, first, last, d_last) ==
    IF first >= last THEN E
    ELSE std_move_backward(Wr(E, d_last - 1, Rd(E, last - 1)), first, last - 1, d_last - 1)

\* std::destroy_n(&E[first], n): the n objects from &E[first] on are destroyed
std_destroy_n(E, first, n) ==
    [k \in 1 .. Len(E) |->
        IF \E j \in 0 .. n - 1 : Wrap(first + j) = k - 1 THEN Uninit ELSE E[k]]

\* ------------------------------------------------------------ constructors
List_default ==
    [_Capacity |-> 0, _Count |-> 0, _Elems |-> <<>>, isNull |-> TRUE, buf |-> 0]

List_initial_size(initial_size) ==
    [_Capacity |-> initial_size, _Count |-> initial_size,
     _Elems |-> [k \in 1 .. initial_size |-> DefaultT], isNull |-> FALSE, buf |-> 1]

\* the live elements, as the client reads them through operator[] and Count()
Items(L) == [k \in 1 .. L._Count |-> Rd(L._Elems, k - 1)]

\* ------------------------------------------------------------ results
\* the list a piece of code left, and whether it ran into undefined behaviour
Step(L, u) == [list |-> L, ub |-> u]

\* a call that returned: the list it left, whether it ran into undefined behaviour,
\* and the path it took through the function
Ok(L, u, path) == [list |-> L, status |-> "ok", ub |-> u, ret |-> 0, path |-> path]

\* throw std::out_of_range
Throw(L) == [list |-> L, status |-> "out_of_range", ub |-> FALSE, ret |-> 0, path |-> "throw"]

\* ------------------------------------------------------------ protected
\* _Reallocate with the move loop one element short (i + 1 < _Count)
_Reallocate_DropsLast(L, new_capacity) ==
    IF L._Capacity = 0
    THEN Step([L EXCEPT !._Elems = allocate(new_capacity), !.isNull = FALSE,
                        !.buf = NewBuf, !._Capacity = new_capacity], FALSE)
    ELSE IF L._Capacity # new_capacity
    THEN Step([L EXCEPT !._Elems = MoveConstruct(allocate(new_capacity), L._Elems,
                                                 0, L._Count - 1, 0),
                        !.isNull = FALSE, !.buf = NewBuf, !._Capacity = new_capacity],
              FALSE)
    ELSE Step([L EXCEPT !._Capacity = new_capacity], FALSE)

_Reallocate(L, new_capacity) ==
    IF L._Capacity = 0
    THEN Step([L EXCEPT !._Elems = allocate(new_capacity), !.isNull = FALSE,
                        !.buf = NewBuf, !._Capacity = new_capacity], FALSE)
    ELSE IF L._Capacity # new_capacity
    THEN LET new_Elems == MoveConstruct(allocate(new_capacity), L._Elems, 0, L._Count, 0)
         IN  Step([L EXCEPT !._Elems = new_Elems, !.isNull = FALSE, !.buf = NewBuf,
                            !._Capacity = new_capacity],
                  Oob(L._Elems, 0, L._Count) \/ Oob(new_Elems, 0, L._Count))
    ELSE Step([L EXCEPT !._Capacity = new_capacity], FALSE)

\* ------------------------------------------------------------ member functions
\* Add that grows a full buffer by one slot instead of doubling it
Add_GrowsByOne(L, what) ==
    LET grown == IF L._Count = L._Capacity
                 THEN IF L._Capacity = 0
                      THEN Step([L EXCEPT !._Elems = allocate(1), !.isNull = FALSE,
                                          !.buf = NewBuf, !._Capacity = 1], FALSE)
                      ELSE _Reallocate(L, Wrap(L._Capacity + 1))
                 ELSE Step(L, FALSE)
         G == grown.list
    IN  Ok([G EXCEPT !._Elems = Wr(G._Elems, G._Count, what),
                     !._Count = Wrap(G._Count + 1)],
           grown.ub \/ Oob(G._Elems, G._Count, G._Count + 1),
           IF L._Count = L._Capacity THEN "grow" ELSE "fit")

Add(L, what) ==
    LET grown == IF L._Count = L._Capacity
                 THEN IF L._Capacity = 0
                      THEN Step([L EXCEPT !._Elems = allocate(1), !.isNull = FALSE,
                                          !.buf = NewBuf, !._Capacity = 1], FALSE)
                      ELSE _Reallocate(L, Wrap(L._Capacity * 2))
                 ELSE Step(L, FALSE)
         G == grown.list
    IN  Ok([G EXCEPT !._Elems = Wr(G._Elems, G._Count, what),
                     !._Count = Wrap(G._Count + 1)],
           grown.ub \/ Oob(G._Elems, G._Count, G._Count + 1),
           IF L._Count = L._Capacity THEN "grow" ELSE "fit")

\* Clear that gives the buffer back, as the destructor does
Clear_Releases(L) ==
    Ok([L EXCEPT !._Elems = <<>>, !.isNull = TRUE, !.buf = 0, !._Count = 0,
                 !._Capacity = 0],
       Oob(L._Elems, 0, L._Count), "clear")

Clear(L) ==
    Ok([L EXCEPT !._Elems = std_destroy_n(L._Elems, 0, L._Count), !._Count = 0],
       Oob(L._Elems, 0, L._Count), "clear")

\* IndexOf with the loop of LastIndexOf: the highest index that holds `what`
IndexOf_FromTheBack(L, what) ==
    IF \E i \in 0 .. L._Count - 1 : Rd(L._Elems, i) = what
    THEN CHOOSE i \in 0 .. L._Count - 1 :
            /\ Rd(L._Elems, i) = what
            /\ \A j \in i + 1 .. L._Count - 1 : Rd(L._Elems, j) # what
    ELSE npos

IndexOf(L, what) ==
    IF \E i \in 0 .. L._Count - 1 : Rd(L._Elems, i) = what
    THEN CHOOSE i \in 0 .. L._Count - 1 :
            /\ Rd(L._Elems, i) = what
            /\ \A j \in 0 .. i - 1 : Rd(L._Elems, j) # what
    ELSE npos

\* Predicate<const T&>: a predicate on T is the set of the values it holds for
Predicates == SUBSET Values

\* the loop of FindIndex from i on
RECURSIVE FindIndexFrom(_, _, _)
FindIndexFrom(L, match, i) ==
    IF i < L._Count
    THEN IF Rd(L._Elems, i) \in match THEN i ELSE FindIndexFrom(L, match, i + 1)
    ELSE npos

FindIndex(L, match) == FindIndexFrom(L, match, 0)

\* the loop of FindLastIndex from i on
RECURSIVE FindLastIndexFrom(_, _, _)
FindLastIndexFrom(L, match, i) ==
    IF i < L._Count
    THEN IF Rd(L._Elems, Wrap(L._Count - i - 1)) \in match
         THEN Wrap(L._Count - i - 1)
         ELSE FindLastIndexFrom(L, match, i + 1)
    ELSE npos

FindLastIndex(L, match) == FindLastIndexFrom(L, match, 0)

\* the loop of LastIndexOf from i on
RECURSIVE LastIndexOfFrom(_, _, _)
LastIndexOfFrom(L, what, i) ==
    IF i < L._Count
    THEN IF Rd(L._Elems, Wrap(L._Count - i - 1)) = what
         THEN Wrap(L._Count - i - 1)
         ELSE LastIndexOfFrom(L, what, i + 1)
    ELSE npos

\* LastIndexOf that returns the loop variable i instead of _Count - i - 1
LastIndexOf_ReturnsLoopIndex(L, what) ==
    LET pos == LastIndexOfFrom(L, what, 0)
    IN  IF pos = npos THEN npos ELSE Wrap(L._Count - pos - 1)

LastIndexOf(L, what) == LastIndexOfFrom(L, what, 0)

\* a const member function that looks an index up: it returns pos and leaves the list
Asked(L, pos) ==
    [Ok(L, Oob(L._Elems, 0, L._Count), IF pos = npos THEN "absent" ELSE "found")
        EXCEPT !.ret = pos]

\* the objects of slots [lo, hi) were moved from and lie past _Count: what they hold
\* is unspecified
MovedFrom(E, lo, hi) ==
    [k \in 1 .. Len(E) |-> IF lo < k /\ k <= hi THEN Uninit ELSE E[k]]

\* Insert, the branch of index < _Count
InsertInside(L, index, what) ==
    LET E == L._Elems
        moved ==
            IF L._Count = L._Capacity
            THEN LET new_capacity == Wrap(L._Capacity * 2)
                     new_Elems ==
                         MoveConstruct(
                             MoveConstruct(allocate(new_capacity), E, 0, index, 0),
                             E, index, L._Count, index + 1)
                 IN  Step([L EXCEPT !._Elems = new_Elems, !.buf = NewBuf,
                                    !._Capacity = new_capacity],
                          Oob(E, 0, L._Count) \/ Oob(new_Elems, 0, L._Count + 1))
            ELSE Step([L EXCEPT !._Elems =
                              std_move_backward(E, index, L._Count, L._Count + 1)],
                      Oob(E, index, L._Count + 1))
        M == moved.list
    IN  Ok([M EXCEPT !._Elems = Wr(M._Elems, index, what),
                     !._Count = Wrap(M._Count + 1)],
           moved.ub \/ Oob(M._Elems, index, index + 1),
           IF L._Count = L._Capacity THEN "realloc" ELSE "in_place")

\* Insert without the branch of index == _Count: the end is inserted at as any place is
Insert_NoDelegation(L, index, what) ==
    IF index <= L._Count
    THEN [InsertInside(L, index, what) EXCEPT
              !.path = IF index = L._Count THEN "add" ELSE @]
    ELSE Throw(L)

Insert(L, index, what) ==
    IF index = L._Count THEN [Add(L, what) EXCEPT !.path = "add"]
    ELSE IF index < L._Count THEN InsertInside(L, index, what)
    ELSE Throw(L)

\* RemoveAt, the branch of index < _Count
RemoveAtInside(L, index) ==
    LET E1 == Wr(Wr(L._Elems, index, Uninit), index, DefaultT)
        E2 == std_move(E1, index + 1, L._Count, index)
    IN  Ok([L EXCEPT !._Elems = MovedFrom(E2, L._Count - 1, L._Count),
                     !._Count = Wrap(L._Count - 1)],
           Oob(L._Elems, index, L._Count),
           IF index + 1 < L._Count THEN "shift" ELSE "last")

\* RemoveAt with the bound of Insert: index <= _Count
RemoveAt_BoundIncluded(L, index) ==
    IF index <= L._Count THEN RemoveAtInside(L, index) ELSE Throw(L)

\* RemoveAt that shifts from index instead of index + 1: the element stays, the last goes
RemoveAt_ShiftsFromIndex(L, index) ==
    IF index < L._Count
    THEN Ok([L EXCEPT !._Elems = MovedFrom(L._Elems, L._Count - 1, L._Count),
                      !._Count = Wrap(L._Count - 1)],
            FALSE, IF index + 1 < L._Count THEN "shift" ELSE "last")
    ELSE Throw(L)

RemoveAt(L, index) ==
    IF index < L._Count THEN RemoveAtInside(L, index) ELSE Throw(L)

Remove(L, what) ==
    LET pos == IndexOf(L, what)
    IN  IF pos # npos
        THEN LET r == RemoveAt(L, pos)
             IN  IF r.status = "ok"
                 THEN [r EXCEPT !.ret = 1, !.path = "found"]
                 ELSE Ok(L, FALSE, "caught")
        ELSE Ok(L, FALSE, "absent")

\* for (i = first; i < last; i++) construct_at(&E[i])
RECURSIVE DefaultConstruct(_, _, _)
DefaultConstruct(E, first, last) ==
    IF first >= last THEN E
    ELSE DefaultConstruct(Wr(E, first, DefaultT), first + 1, last)

\* RemoveRange that moves the tail one slot only, as RemoveAt does
RemoveRange_ShiftsByOne(L, index, count) ==
    IF Wrap(index + count) <= L._Count
    THEN LET E1 == std_destroy_n(L._Elems, index, count)
             E2 == DefaultConstruct(E1, index, Wrap(index + count))
             E3 == std_move(E2, Wrap(index + 1), L._Count, index)
             new_Count == Wrap(L._Count - count)
         IN  Ok([L EXCEPT !._Elems = MovedFrom(E3, new_Count, L._Count),
                          !._Count = new_Count],
                Oob(L._Elems, index, index + count),
                IF count = 0 THEN "none" ELSE "shift")
    ELSE Throw(L)

RemoveRange(L, index, count) ==
    IF Wrap(index + count) <= L._Count
    THEN LET E1 == std_destroy_n(L._Elems, index, count)
             E2 == DefaultConstruct(E1, index, Wrap(index + count))
             E3 == std_move(E2, Wrap(index + count), L._Count, index)
             new_Count == Wrap(L._Count - count)
         IN  Ok([L EXCEPT !._Elems = MovedFrom(E3, new_Count, L._Count),
                          !._Count = new_Count],
                \/ Oob(L._Elems, index, index + count)
                \/ Oob(L._Elems, index, index + (L._Count - Wrap(index + count))),
                IF count = 0 THEN "none" ELSE "shift")
    ELSE Throw(L)

Resize(L, n) ==
    LET cut == IF n < L._Count
               THEN LET cnt == Wrap(L._Count - n)
                    IN  Step([L EXCEPT !._Count = cnt,
                                       !._Elems = std_destroy_n(L._Elems, n, cnt)],
                             Oob(L._Elems, n, n + cnt))
               ELSE Step(L, FALSE)
        r == _Reallocate(cut.list, n)
    IN  Ok(r.list, cut.ub \/ r.ub, IF n < L._Count THEN "shrink" ELSE "keep")

Swap(E, i, j) == Wr(Wr(E, i, Rd(E, j)), j, Rd(E, i))

\* the loop of Reverse run to _Count instead of _Count / 2
RECURSIVE ReverseFrom_WholeRange(_, _, _)
ReverseFrom_WholeRange(E, i, count) ==
    IF i < count
    THEN ReverseFrom_WholeRange(Swap(E, i, count - i - 1), i + 1, count)
    ELSE E

RECURSIVE ReverseFrom(_, _, _)
ReverseFrom(E, i, count) ==
    IF i < count \div 2
    THEN ReverseFrom(Swap(E, i, count - i - 1), i + 1, count)
    ELSE E

Reverse(L) ==
    Ok([L EXCEPT !._Elems = ReverseFrom(L._Elems, 0, L._Count)],
       Oob(L._Elems, 0, L._Count), "reverse")

\* ------------------------------------------------------------ sorting
\* Comparison<T>: a three-way comparison function; the total orders on T are the
\* comparisons by a key that ranks the values
Comparisons ==
    {key \in [Values -> Values] : \A a, b \in Values : key[a] = key[b] => a = b}

compare(key, a, b) ==
    IF key[a] < key[b] THEN "less"
    ELSE IF key[a] > key[b] THEN "greater"
    ELSE "equivalent"

\* the natural ordering of T
DefaultCompare == [v \in Values |-> v]

\* the inner while loop without the look at the second child
RECURSIVE SiftDown_FirstChildOnly(_, _, _, _)
SiftDown_FirstChildOnly(E, root, end, key) ==
    IF root * 2 + 1 < end
    THEN LET child == root * 2 + 1
         IN  IF Rd(E, root) < Rd(E, child)
             THEN SiftDown_FirstChildOnly(Swap(E, root, child), child, end, key)
             ELSE E
    ELSE E

\* the inner while loop of _HeapSort
RECURSIVE SiftDown(_, _, _, _)
SiftDown(E, root, end, key) ==
    IF root * 2 + 1 < end
    THEN LET first_child == root * 2 + 1
             child ==
                 IF /\ first_child + 1 < end
                    /\ compare(key, Rd(E, first_child), Rd(E, first_child + 1)) = "less"
                 THEN first_child + 1
                 ELSE first_child
         IN  IF Rd(E, root) < Rd(E, child)
             THEN SiftDown(Swap(E, root, child), child, end, key)
             ELSE E
    ELSE E

\* the outer while loop of _HeapSort
RECURSIVE HeapLoop(_, _, _, _)
HeapLoop(E, start, end, key) ==
    IF end > 1
    THEN IF start > 0
         THEN HeapLoop(SiftDown(E, start - 1, end, key), start - 1, end, key)
         ELSE HeapLoop(SiftDown(Swap(E, 0, end - 1), 0, end - 1, key), 0, end - 1, key)
    ELSE E

\* a turn of the outer while loop that leaves the root where it is: end-- alone
Turn_KeepsRoot(E, start, end, key) ==
    IF start > 0
    THEN [E |-> SiftDown(E, start - 1, end, key), start |-> start - 1, end |-> end]
    ELSE [E |-> SiftDown(E, 0, end - 1, key), start |-> 0, end |-> end - 1]

\* one turn of the outer while loop of _HeapSort: the buffer, start and end it leaves
Turn(E, start, end, key) ==
    IF start > 0
    THEN [E |-> SiftDown(E, start - 1, end, key), start |-> start - 1, end |-> end]
    ELSE [E |-> SiftDown(Swap(E, 0, end - 1), 0, end - 1, key),
          start |-> 0, end |-> end - 1]

_HeapSort(L, key) ==
    Ok([L EXCEPT !._Elems = HeapLoop(L._Elems, L._Count \div 2, L._Count, key)],
       Oob(L._Elems, 0, L._Count),
       IF key = DefaultCompare THEN "natural" ELSE "custom")

Sort(L, key) == _HeapSort(L, key)

\* ------------------------------------------------------------ ranges
\* for (i = 0; i < Len(what); i++) E[d + i] = what[i]
RECURSIVE CopyIn(_, _, _)
CopyIn(E, what, d) ==
    IF what = <<>> THEN E
    ELSE CopyIn(Wr(E, d, Head(what)), Tail(what), d + 1)

\* for (i = first; i < last; i++) construct_at(&dst[i + add_count], &src[i]): each T is
\* built from the address of an element, which yields fromPtr whatever the element is
RECURSIVE ConstructFromPtr(_, _, _, _, _)
ConstructFromPtr(dst, first, last, add_count, fromPtr) ==
    IF first >= last THEN dst
    ELSE ConstructFromPtr(Wr(dst, first + add_count, fromPtr), first + 1, last,
                          add_count, fromPtr)

\* AddRange that grows the buffer to what the elements need: _Count + add_count
AddRange_GrowsToFit(L, what) ==
    LET add_count == Len(what)
        grows == add_count > Wrap(L._Capacity - L._Count)
        grown == IF grows
                 THEN _Reallocate(L, Wrap(L._Count + add_count))
                 ELSE Step(L, FALSE)
        G == grown.list
    IN  Ok([G EXCEPT !._Elems = CopyIn(G._Elems, what, G._Count),
                     !._Count = Wrap(G._Count + add_count)],
           grown.ub \/ Oob(G._Elems, G._Count, G._Count + add_count),
           IF grows THEN "grow" ELSE "fit")

AddRange(L, what) ==
    LET add_count == Len(what)
        grows == add_count > Wrap(L._Capacity - L._Count)
        grown == IF grows
                 THEN _Reallocate(L, Wrap(L._Count * 2 + add_count))
                 ELSE Step(L, FALSE)
        G == grown.list
    IN  Ok([G EXCEPT !._Elems = CopyIn(G._Elems, what, G._Count),
                     !._Count = Wrap(G._Count + add_count)],
           grown.ub \/ Oob(G._Elems, G._Count, G._Count + add_count),
           IF grows THEN "grow" ELSE "fit")

\* InsertRange(std::size_t, const _It&)
InsertRange(L, index, what, fromPtr) ==
    IF index = L._Count THEN [AddRange(L, what) EXCEPT !.path = "add_range"]
    ELSE IF index < L._Count
    THEN LET E == L._Elems
             add_count == Len(what)
             grows == add_count > Wrap(L._Capacity - L._Count)
             moved ==
                 IF grows
                 THEN LET new_capacity == Wrap(L._Count * 2 + add_count)
                          new_Elems ==
                              ConstructFromPtr(
                                  MoveConstruct(allocate(new_capacity), E, 0, index, 0),
                                  index, L._Count, add_count, fromPtr)
                      IN  Step([L EXCEPT !._Elems = new_Elems, !.buf = NewBuf,
                                         !._Capacity = new_capacity],
                               Oob(E, 0, L._Count)
                                   \/ Oob(new_Elems, 0, L._Count + add_count))
                 ELSE Step([L EXCEPT !._Elems =
                                   std_move_backward(
                                       DefaultConstruct(E, L._Count, L._Count + add_count),
                                       index, L._Count, L._Count + add_count)],
                           Oob(E, index, L._Count + add_count))
             M == moved.list
         IN  Ok([M EXCEPT !._Elems = CopyIn(M._Elems, what, index),
                          !._Count = Wrap(M._Count + add_count)],
                moved.ub \/ Oob(M._Elems, index, index + add_count),
                IF grows THEN "realloc" ELSE "in_place")
    ELSE Throw(L)

\* InsertRange(std::size_t, _It&&)
InsertRangeMove(L, index, what) ==
    IF index = L._Count THEN [AddRange(L, what) EXCEPT !.path = "add_range"]
    ELSE IF index < L._Count
    THEN LET E == L._Elems
             add_count == Len(what)
             grows == add_count > Wrap(L._Capacity - L._Count)
             moved ==
                 IF grows
                 THEN LET new_capacity == Wrap(L._Count * 2 + add_count)
                          new_Elems ==
                              MoveConstruct(
                                  MoveConstruct(allocate(new_capacity), E, 0, index, 0),
                                  E, index, L._Count, index + add_count)
                      IN  Step([L EXCEPT !._Elems = new_Elems, !.buf = NewBuf,
                                         !._Capacity = new_capacity],
                               Oob(E, 0, L._Count)
                                   \/ Oob(new_Elems, 0, L._Count + add_count))
                 ELSE Step([L EXCEPT !._Elems =
                                   std_move_backward(E, index, L._Count,
                                                     L._Count + add_count)],
                           Oob(E, index, L._Count + add_count))
             M == moved.list
         IN  Ok([M EXCEPT !._Elems = CopyIn(M._Elems, what, index),
                          !._Count = Wrap(M._Count + add_count)],
                moved.ub \/ Oob(M._Elems, index, index + add_count),
                IF grows THEN "realloc" ELSE "in_place")
    ELSE Throw(L)

\* ------------------------------------------------------------ two lists
\* a call that involves a second list: the list it left (list), the list it left its
\* argument as (source) and the buffers it gave back to the allocator (released)
Both(L, S, u, path, released) ==
    [list |-> L, source |-> S, status |-> "ok", ub |-> u, ret |-> 0, path |-> path,
     released |-> released]

\* for (i = first; i < last; i++) construct_at(&dst[i], src[i])
RECURSIVE CopyConstruct(_, _, _, _)
CopyConstruct(dst, src, first, last) ==
    IF first >= last THEN dst
    ELSE CopyConstruct(Wr(dst, first, Rd(src, first)), src, first + 1, last)

\* List(const List& other) that takes the pointer of other instead of a buffer of its own
List_copy_SharesBuffer(src) ==
    Both([src EXCEPT !._Capacity = src._Count], src, FALSE,
         IF src.isNull THEN "null" ELSE "allocate", {})

\* List(const List& other)
List_copy(src) ==
    LET new_Elems ==
            CopyConstruct(IF src.isNull THEN <<>> ELSE allocate(src._Count),
                          src._Elems, 0, src._Count)
    IN  Both([_Capacity |-> src._Count, _Count |-> src._Count, _Elems |-> new_Elems,
              isNull |-> src.isNull, buf |-> IF src.isNull THEN 0 ELSE NewBuf],
             src,
             Oob(src._Elems, 0, src._Count) \/ Oob(new_Elems, 0, src._Count),
             IF src.isNull THEN "null" ELSE "allocate", {})

\* List(List&& other)
List_move(src) ==
    Both([_Capacity |-> src._Capacity, _Count |-> src._Count, _Elems |-> src._Elems,
          isNull |-> src.isNull, buf |-> src.buf],
         [_Capacity |-> 0, _Count |-> 0, _Elems |-> <<>>, isNull |-> TRUE, buf |-> 0],
         FALSE, "take", {})

\* ~List()
List_destructor(L) ==
    Both(List_default, L, Oob(L._Elems, 0, L._Count), "destroy", {L.buf})

\* operator=(const List& other)
assign_copy(L, src) ==
    LET grows == L._Capacity < src._Count
        E == IF grows
             THEN allocate(src._Count)
             ELSE std_destroy_n(L._Elems, 0, L._Count)
        new_Elems == CopyConstruct(E, src._Elems, 0, src._Count)
    IN  Both([L EXCEPT !._Elems = new_Elems,
                       !._Capacity = IF grows THEN src._Count ELSE @,
                       !.isNull = IF grows THEN FALSE ELSE @,
                       !.buf = IF grows THEN NewBuf ELSE @,
                       !._Count = src._Count],
             src,
             \/ Oob(L._Elems, 0, L._Count)
             \/ Oob(src._Elems, 0, src._Count)
             \/ Oob(new_Elems, 0, src._Count),
             IF grows THEN "realloc" ELSE "in_place",
             IF grows THEN {L.buf} ELSE {})

\* operator=(List&& other) without the release of the buffer the list held
assign_move_KeepsOld(L, src) ==
    Both([L EXCEPT !._Elems = src._Elems, !.isNull = src.isNull, !.buf = src.buf,
                   !._Count = src._Count, !._Capacity = src._Capacity],
         [src EXCEPT !._Elems = <<>>, !.isNull = TRUE, !.buf = 0,
                     !._Count = 0, !._Capacity = 0],
         FALSE, IF L.isNull THEN "take" ELSE "release", {})

\* operator=(List&& other)
assign_move(L, src) ==
    Both([L EXCEPT !._Elems = src._Elems, !.isNull = src.isNull, !.buf = src.buf,
                   !._Count = src._Count, !._Capacity = src._Capacity],
         [src EXCEPT !._Elems = <<>>, !.isNull = TRUE, !.buf = 0,
                     !._Count = 0, !._Capacity = 0],
         ~L.isNull /\ Oob(L._Elems, 0, L._Count),
         IF L.isNull THEN "take" ELSE "release",
         IF L.isNull THEN {} ELSE {L.buf})

\* Converter<T, TOutput>: the converters v -> a * v + b on the values, among them the
\* identity, the constant ones and the shifts
Converters ==
    {[v \in Values |-> (a * v + b) % (MaxVal + 1)] : a \in {0, 1, MaxVal}, b \in Values}

\* for (i = first; i < last; i++) out[i] = converter(src[i])
RECURSIVE ConvertInto(_, _, _, _, _)
ConvertInto(out, src, converter, first, last) ==
    IF first >= last THEN out
    ELSE LET v == Rd(src, first)
         IN  ConvertInto(Wr(out, first, IF v \in Values THEN converter[v] ELSE Uninit),
                         src, converter, first + 1, last)

\* ConvertAll that fills the list from its last slot down: out[_Count - i - 1]
ConvertAll_Backwards(L, converter) ==
    LET out == [List_initial_size(L._Count) EXCEPT !.buf = NewBuf]
        E == ConvertInto(out._Elems, L._Elems, converter, 0, L._Count)
    IN  Both([out EXCEPT !._Elems = [k \in 1 .. Len(E) |-> E[Len(E) + 1 - k]]], L,
             Oob(L._Elems, 0, L._Count), "convert", {})

ConvertAll(L, converter) ==
    LET out == [List_initial_size(L._Count) EXCEPT !.buf = NewBuf]
    IN  Both([out EXCEPT !._Elems =
                  ConvertInto(out._Elems, L._Elems, converter, 0, L._Count)],
             L, Oob(L._Elems, 0, L._Count) \/ Oob(out._Elems, 0, L._Count),
             "convert", {})

\* operator==
Equal(L, M) ==
    /\ L._Count = M._Count
    /\ \A i \in 0 .. L._Count - 1 : Rd(L._Elems, i) = Rd(M._Elems, i)

\* ------------------------------------------------------------ deallocate
\* a call _Alloc.deallocate(buf, n): the buffer handed over and the n it is given
Deallocate(buf, n) == [buf |-> buf, n |-> n]

\* the calls of deallocate each function makes on the list L
_Reallocate_deallocate(L, new_capacity) ==
    IF L._Capacity # 0 /\ L._Capacity # new_capacity
    THEN {Deallocate(L.buf, L._Capacity)}
    ELSE {}

Add_deallocate(L) ==
    IF L._Count = L._Capacity /\ L._Capacity # 0
    THEN _Reallocate_deallocate(L, Wrap(L._Capacity * 2))
    ELSE {}

\* Insert: deallocate(_Elems, _Capacity) comes before _Capacity *= 2
Insert_deallocate(L, index) ==
    IF index = L._Count THEN Add_deallocate(L)
    ELSE IF index < L._Count /\ L._Count = L._Capacity
    THEN {Deallocate(L.buf, L._Capacity)}
    ELSE {}

Resize_deallocate(L, n) ==
    _Reallocate_deallocate([L EXCEPT !._Count = IF n < @ THEN Wrap(@ - n) ELSE @], n)

AddRange_deallocate(L, what) ==
    IF Len(what) > Wrap(L._Capacity - L._Count)
    THEN _Reallocate_deallocate(L, Wrap(L._Count * 2 + Len(what)))
    ELSE {}

\* InsertRange, either overload: _Capacity = _Count * 2 + add_count is assigned in the
\* call of allocate, and deallocate(_Elems, _Capacity) follows it
InsertRange_deallocate(L, index, what) ==
    IF index = L._Count THEN AddRange_deallocate(L, what)
    ELSE IF index < L._Count /\ Len(what) > Wrap(L._Capacity - L._Count)
    THEN {Deallocate(L.buf, Wrap(L._Count * 2 + Len(what)))}
    ELSE {}

assign_copy_deallocate(L, src) ==
    IF L._Capacity < src._Count THEN {Deallocate(L.buf, L._Capacity)} ELSE {}

assign_move_deallocate(L) ==
    IF ~L.isNull THEN {Deallocate(L.buf, L._Capacity)} ELSE {}

List_destructor_deallocate(L) == {Deallocate(L.buf, L._Capacity)}

\* ------------------------------------------------------------ the state machine
\* the call that has just returned: the member function, how it ended and the path it
\* took; NoCall once the caller has gone on
Called(op, r) == [op |-> op, status |-> r.status, path |-> r.path, ret |-> r.ret]

NoCall == [op |-> "none", status |-> "ok", path |-> "none", ret |-> 0]

\* the locals of _HeapSort where it is not running
NoFrame == [start |-> 0, end |-> 0]

Init ==
    /\ this \in {List_default} \cup {List_initial_size(n) : n \in 0 .. MaxCap}
    /\ call = [op |-> "List", status |-> "ok", path |-> "constructed", ret |-> 0]
    /\ other = List_default
    /\ ub = FALSE
    /\ adds = <<>>
    /\ onlyAdds = (this = List_default)
    /\ frame = NoFrame

\* the list M after a call that found the list L and left it as R: where M points to
\* the buffer L pointed to, M sees what the call did to that buffer, and sees nothing
\* it can rely on where the call gave the buffer up
Through(M, L, R) ==
    IF M.buf # 0 /\ M.buf = L.buf
    THEN [M EXCEPT !._Elems = IF R.buf = L.buf THEN R._Elems ELSE allocate(Len(@))]
    ELSE M

\* the call `op` ran on the list and ended as `r`; the model follows lists of at most
\* MaxCap slots, and no call after one with undefined behaviour
Ran(op, r) ==
    /\ ~ub
    /\ call = NoCall
    /\ \E res \in {r} :
          /\ res.list._Capacity <= MaxCap
          /\ this' = res.list
          /\ other' = Through(other, this, res.list)
          /\ call' = Called(op, res)
          /\ ub' = res.ub
    /\ UNCHANGED frame

\* the list is no longer one built from the empty list by Add alone
Mutated ==
    /\ adds' = <<>>
    /\ onlyAdds' = FALSE

\* the indices a caller passes: in range, past the end, and near the top of size_t
Indices == (0 .. MaxCap) \cup {SizeMod - 2, SizeMod - 1}

\* the ranges a caller passes: runs of consecutive values that start at the least or
\* at the greatest value, of every length to MaxSrc
Sources ==
    {[k \in 1 .. n |-> (v + k - 1) % (MaxVal + 1)] : v \in {DefaultT, MaxVal}, n \in 0 .. MaxSrc}

AddCall(what) ==
    /\ Ran("Add", Add(this, what))
    /\ adds' = IF onlyAdds THEN Append(adds, what) ELSE <<>>
    /\ UNCHANGED onlyAdds

ClearCall == Ran("Clear", Clear(this)) /\ Mutated

InsertCall(index, what) == Ran("Insert", Insert(this, index, what)) /\ Mutated

RemoveCall(what) == Ran("Remove", Remove(this, what)) /\ Mutated

RemoveAtCall(index) == Ran("RemoveAt", RemoveAt(this, index)) /\ Mutated

RemoveRangeCall(index, count) ==
    Ran("RemoveRange", RemoveRange(this, index, count)) /\ Mutated

ResizeCall(n) == Ran("Resize", Resize(this, n)) /\ Mutated

ReverseCall == Ran("Reverse", Reverse(this)) /\ Mutated

SortCall(key) == Ran("Sort", Sort(this, key)) /\ Mutated

AddRangeCall(what) == Ran("AddRange", AddRange(this, what)) /\ Mutated

InsertRangeCall(index, what, fromPtr) ==
    Ran("InsertRange", InsertRange(this, index, what, fromPtr)) /\ Mutated

InsertRangeMoveCall(index, what) ==
    Ran("InsertRangeMove", InsertRangeMove(this, index, what)) /\ Mutated

\* const member functions: the list is as it was, whatever was done to it before
Unmutated == UNCHANGED <<adds, onlyAdds>>

IndexOfCall(what) == Ran("IndexOf", Asked(this, IndexOf(this, what))) /\ Unmutated

LastIndexOfCall(what) ==
    Ran("LastIndexOf", Asked(this, LastIndexOf(this, what))) /\ Unmutated

FindIndexCall(match) ==
    Ran("FindIndex", Asked(this, FindIndex(this, match))) /\ Unmutated

FindLastIndexCall(match) ==
    Ran("FindLastIndex", Asked(this, FindLastIndex(this, match))) /\ Unmutated

\* the call `op` ran on the list other and ended as `r`
RanOther(op, r) ==
    /\ ~ub
    /\ call = NoCall
    /\ \E res \in {r} :
          /\ res.list._Capacity <= MaxCap
          /\ other' = res.list
          /\ this' = Through(this, other, res.list)
          /\ call' = Called(op, res)
          /\ ub' = res.ub
    /\ Mutated
    /\ UNCHANGED frame

\* the call `op` that made or assigned the list other from the list this ended as `r`
RanBoth(op, r) ==
    /\ ~ub
    /\ call = NoCall
    /\ \E res \in {r} :
          /\ other' = res.list
          /\ this' = res.source
          /\ call' = Called(op, res)
          /\ ub' = res.ub
    /\ Mutated
    /\ UNCHANGED frame

\* other.Add(what), other.RemoveAt(index), other.Clear()
OtherAddCall(what) == RanOther("other.Add", Add(other, what))

OtherRemoveAtCall(index) == RanOther("other.RemoveAt", RemoveAt(other, index))

OtherClearCall == RanOther("other.Clear", Clear(other))

\* List other(this), where no list other is
CopyConstructCall ==
    other = List_default /\ RanBoth("List(const List&)", List_copy(this))

\* List other(std::move(this)), where no list other is
MoveConstructCall ==
    other = List_default /\ RanBoth("List(List&&)", List_move(this))

\* other = this
CopyAssignCall == RanBoth("operator=(const List&)", assign_copy(other, this))

\* other = std::move(this)
MoveAssignCall == RanBoth("operator=(List&&)", assign_move(other, this))

\* List other = this.ConvertAll(converter), where no list other is
ConvertAllCall(converter) ==
    other = List_default /\ RanBoth("ConvertAll", ConvertAll(this, converter))

\* the list other goes out of scope
DestructorCall ==
    /\ other # List_default
    /\ RanBoth("~List", [List_destructor(other) EXCEPT !.source = this])

\* the caller has seen the outcome of the call and goes on
Return ==
    /\ call # NoCall
    /\ call.status # "running"
    /\ call' = NoCall
    /\ UNCHANGED <<this, other, ub, adds, onlyAdds, frame>>

\* Sort() enters _HeapSort(DefaultCompare): start = _Count / 2, end = _Count
HeapSortEnter ==
    /\ ~ub
    /\ call = NoCall
    /\ call' = [op |-> "_HeapSort", status |-> "running", path |-> "natural", ret |-> 0]
    /\ frame' = [start |-> this._Count \div 2, end |-> this._Count]
    /\ UNCHANGED <<this, other, ub>>
    /\ Mutated

\* while (end > 1): one turn of the loop
HeapSortTurn ==
    /\ call.status = "running"
    /\ frame.end > 1
    /\ LET turn == Turn(this._Elems, frame.start, frame.end, DefaultCompare)
       IN  /\ this' = [this EXCEPT !._Elems = turn.E]
           /\ frame' = [start |-> turn.start, end |-> turn.end]
    /\ UNCHANGED <<other, call, ub, adds, onlyAdds>>

\* the loop is left and _HeapSort returns
HeapSortLeave ==
    /\ call.status = "running"
    /\ ~(frame.end > 1)
    /\ call' = [call EXCEPT !.status = "ok"]
    /\ frame' = NoFrame
    /\ UNCHANGED <<this, other, ub, adds, onlyAdds>>

DoAdd == \E what \in Values : AddCall(what)

DoClear == ClearCall

DoInsert == \E index \in Indices, what \in Values : InsertCall(index, what)

DoRemove == \E what \in Values : RemoveCall(what)

DoRemoveAt == \E index \in Indices : RemoveAtCall(index)

DoRemoveRange == \E index \in Indices, count \in Indices : RemoveRangeCall(index, count)

DoResize == \E n \in 0 .. MaxCap : ResizeCall(n)

DoReverse == ReverseCall

DoSort == \E key \in Comparisons : SortCall(key)

DoAddRange == \E what \in Sources : AddRangeCall(what)

DoIndexOf == \E what \in Values : IndexOfCall(what)

DoLastIndexOf == \E what \in Values : LastIndexOfCall(what)

DoFindIndex == \E match \in Predicates : FindIndexCall(match)

DoFindLastIndex == \E match \in Predicates : FindLastIndexCall(match)

\* what a T built from an element's address may be: any value, where the call builds one
FromPtrs(index, what) ==
    IF index < this._Count /\ Len(what) > Wrap(this._Capacity - this._Count)
    THEN Values
    ELSE {DefaultT}

DoInsertRange ==
    \E index \in Indices, what \in Sources :
        \E fromPtr \in FromPtrs(index, what) : InsertRangeCall(index, what, fromPtr)

DoInsertRangeMove ==
    \E index \in Indices, what \in Sources : InsertRangeMoveCall(index, what)

Next ==
    \/ Return
    \/ DoAdd
    \/ DoClear
    \/ DoInsert
    \/ DoRemove
    \/ DoRemoveAt
    \/ DoRemoveRange
    \/ DoResize
    \/ DoReverse
    \/ DoSort
    \/ DoAddRange
    \/ DoInsertRange
    \/ DoInsertRangeMove
    \/ DoIndexOf
    \/ DoLastIndexOf
    \/ DoFindIndex
    \/ DoFindLastIndex

Spec == Init /\ [][Next]_vars

\* two lists of at most MaxBoth slots each: the calls that grow, shrink and reorder
\* them, and the copy, move and conversion of the one into the other
InitBoth ==
    /\ this \in {List_default} \cup {List_initial_size(n) : n \in 0 .. MaxBoth}
    /\ other = List_default
    /\ call = [op |-> "List", status |-> "ok", path |-> "constructed", ret |-> 0]
    /\ ub = FALSE
    /\ adds = <<>>
    /\ onlyAdds = FALSE
    /\ frame = NoFrame

WithinBoth == this'._Capacity <= MaxBoth /\ other'._Capacity <= MaxBoth

DoOtherAdd == \E what \in Values : OtherAddCall(what)

DoOtherRemoveAt == \E index \in Indices : OtherRemoveAtCall(index)

DoConvertAll == \E converter \in Converters : ConvertAllCall(converter)

NextBoth ==
    \/ Return
    \/ DoAdd /\ WithinBoth
    \/ DoRemoveAt
    \/ DoClear
    \/ DoResize /\ WithinBoth
    \/ DoReverse
    \/ DoOtherAdd /\ WithinBoth
    \/ DoOtherRemoveAt
    \/ OtherClearCall
    \/ CopyConstructCall
    \/ MoveConstructCall
    \/ CopyAssignCall
    \/ MoveAssignCall
    \/ DoConvertAll
    \/ DestructorCall

SpecBoth == InitBoth /\ [][NextBoth]_vars

\* lists built by Add and sorted in the natural order, _HeapSort followed turn by
\* turn of its outer loop; a call that has started runs on until it returns
NextSort ==
    \/ Return
    \/ DoAdd
    \/ HeapSortEnter
    \/ HeapSortTurn
    \/ HeapSortLeave

SpecSort ==
    /\ Init
    /\ [][NextSort]_vars
    /\ WF_vars(HeapSortTurn)
    /\ WF_vars(HeapSortLeave)

\* the calls of Add, Insert, Remove, RemoveAt, RemoveRange, Resize and Clear on a list
\* that starts empty
InitEmpty == Init /\ this = List_default

NextEmpty ==
    \/ Return
    \/ DoAdd
    \/ DoClear
    \/ DoInsert
    \/ DoRemove
    \/ DoRemoveAt
    \/ DoRemoveRange
    \/ DoResize

SpecEmpty == InitEmpty /\ [][NextEmpty]_vars

\* ------------------------------------------------------------ properties
\* a list none of whose calls ran into undefined behaviour keeps its elements inside
\* its buffer, and every element is a value of T
WellFormed ==
    ~ub => /\ this._Count <= this._Capacity
           /\ Len(this._Elems) = this._Capacity
           /\ \A k \in 1 .. this._Count : this._Elems[k] \in Values

IsSortedBy(key, s) ==
    \A k \in 1 .. Len(s) - 1 : compare(key, s[k], s[k + 1]) # "greater"

Occurrences(s, v) == Cardinality({k \in 1 .. Len(s) : s[k] = v})

IsPermutation(s, t) ==
    /\ Len(s) = Len(t)
    /\ \A v \in Values \cup {Uninit} : Occurrences(s, v) = Occurrences(t, v)

\* s with v put in front of its element of (0-based) index i
WithInserted(s, i, v) == SubSeq(s, 1, i) \o <<v>> \o SubSeq(s, i + 1, Len(s))

\* s without its element of (0-based) index i
WithoutIndex(s, i) == SubSeq(s, 1, i) \o SubSeq(s, i + 2, Len(s))

\* C1: after every call of every sequence of Add, Insert, Remove, RemoveAt,
\* RemoveRange, Resize and Clear calls on a list that starts empty (failing calls
\* included), 0 <= Count() <= Capacity().
C1_CountWithinCapacity ==
    0 <= this._Count /\ this._Count <= this._Capacity

\* C2: for every n < Count(), Resize(n) leaves Count() = n, Capacity() = n and, at
\* [0, n), the first n elements the list held before, in the same order.
C2_ResizeShrinks ==
    [][\A n \in 0 .. MaxCap :
          call'.op = "Resize" /\ n < this._Count /\ ResizeCall(n)
              => /\ this'._Count = n
                 /\ this'._Capacity = n
                 /\ Items(this') = SubSeq(Items(this), 1, n)]_vars

\* C3: Sort() with the natural ordering leaves the elements in non-decreasing order
\* and a permutation of what they were, Count() and Capacity() as they were, and a
\* list that was sorted (or empty) the same sequence.
C3_SortNatural ==
    [][call'.op = "Sort" /\ SortCall(DefaultCompare)
          => /\ IsSortedBy(DefaultCompare, Items(this'))
             /\ IsPermutation(Items(this), Items(this'))
             /\ this'._Count = this._Count
             /\ this'._Capacity = this._Capacity
             /\ (IsSortedBy(DefaultCompare, Items(this)) => Items(this') = Items(this))]_vars

\* a natural-order Sort has run on a list of at least three elements, not all equal
C3_Witness ==
    /\ call.op = "Sort" /\ call.path = "natural"
    /\ this._Count >= 3
    /\ Items(this)[1] < Items(this)[this._Count]

\* C4: for every three-way comparator that is a total order on the elements, after
\* Sort(compare) no adjacent pair a[i], a[i+1] has compare(a[i], a[i+1]) = greater,
\* and the result is a permutation of the elements before the call.
C4_SortByComparator ==
    [][\A key \in Comparisons :
          call'.op = "Sort" /\ SortCall(key)
              => /\ IsSortedBy(key, Items(this'))
                 /\ IsPermutation(Items(this), Items(this'))]_vars

\* C5: Add called with v0 .. vN-1 in order on an empty list leaves Count() = N and
\* element i equal to vi for every i < N, whatever reallocations the growth makes.
C5_AddAppends ==
    onlyAdds => /\ this._Count = Len(adds)
                /\ Items(this) = adds

\* at least three values were added to an empty list, across two reallocations
C5_Witness ==
    /\ onlyAdds /\ call.op = "Add" /\ call.path = "grow"
    /\ Len(adds) >= 3

\* C6: for every index < Count(), Insert(index, v) yields old[0..index) ++ [v] ++
\* old[index..count) with Count() one more; the capacity is unchanged where
\* Count() < Capacity() and doubled where Count() = Capacity().
C6_InsertInside ==
    [][\A index \in Indices, what \in Values :
          call'.op = "Insert" /\ index < this._Count /\ InsertCall(index, what)
              => /\ call'.status = "ok"
                 /\ Items(this') = WithInserted(Items(this), index, what)
                 /\ this'._Count = this._Count + 1
                 /\ (this._Count < this._Capacity => this'._Capacity = this._Capacity)
                 /\ (this._Count = this._Capacity
                        => this'._Capacity = 2 * this._Capacity)]_vars

\* an Insert before the end of a full list of at least two elements has reallocated
C6_Witness ==
    /\ call.op = "Insert" /\ call.path = "realloc" /\ ~ub
    /\ this._Count >= 3

\* C7: in every reachable state and for every v, Insert(Count(), v) leaves the list
\* as Add(v) would: the same elements, Count() and Capacity().
C7_InsertAtEndIsAdd ==
    [][\A what \in Values :
          call'.op = "Insert" /\ InsertCall(this._Count, what)
              => /\ this' = Add(this, what).list
                 /\ call'.status = Add(this, what).status
                 /\ ub' = Add(this, what).ub]_vars

\* an Insert at index Count() has run on a list that held an element
C7_Witness ==
    /\ call.op = "Insert" /\ call.path = "add"
    /\ this._Count >= 2

\* C8: Insert and InsertRange with index > Count(), and RemoveAt with
\* index >= Count(), fail with out-of-range and leave Count(), Capacity() and every
\* element as they were.
C8_OutOfRangeRejected ==
    [][/\ \A index \in Indices, what \in Values :
             call'.op = "Insert" /\ index > this._Count /\ InsertCall(index, what)
                 => call'.status = "out_of_range" /\ this' = this
       /\ \A index \in Indices, what \in Sources, fromPtr \in Values :
             (call'.op = "InsertRange" /\ index > this._Count
                 /\ InsertRangeCall(index, what, fromPtr))
                 => call'.status = "out_of_range" /\ this' = this
       /\ \A index \in Indices, what \in Sources :
             (call'.op = "InsertRangeMove" /\ index > this._Count
                 /\ InsertRangeMoveCall(index, what))
                 => call'.status = "out_of_range" /\ this' = this
       /\ \A index \in Indices :
             call'.op = "RemoveAt" /\ index >= this._Count /\ RemoveAtCall(index)
                 => call'.status = "out_of_range" /\ this' = this]_vars

\* a RemoveAt past the end of a list that holds elements has thrown
C8_Witness ==
    /\ call.op = "RemoveAt" /\ call.status = "out_of_range"
    /\ this._Count >= 1

\* C9: for every index and removeCount of the index type, also where their sum
\* wraps around, RemoveRange(index, removeCount) fails with out-of-range and changes
\* nothing whenever index + removeCount, as a sum of integers, exceeds Count().
C9_RemoveRangeRejectsOverflow ==
    [][\A index \in Indices, count \in Indices :
          (call'.op = "RemoveRange" /\ index + count > this._Count
              /\ RemoveRangeCall(index, count))
              => call'.status = "out_of_range" /\ this' = this]_vars

\* C10: for every index < Count(), RemoveAt(index) yields old[0..index) ++
\* old[index+1..count) with Count() one less, the order of the rest and Capacity()
\* as they were.
C10_RemoveAtInside ==
    [][\A index \in Indices :
          call'.op = "RemoveAt" /\ index < this._Count /\ RemoveAtCall(index)
              => /\ call'.status = "ok"
                 /\ Items(this') = WithoutIndex(Items(this), index)
                 /\ this'._Count = this._Count - 1
                 /\ this'._Capacity = this._Capacity]_vars

\* a RemoveAt has removed an element that had others behind it
C10_Witness ==
    /\ call.op = "RemoveAt" /\ call.path = "shift" /\ ~ub
    /\ this._Count >= 2

\* s without its k elements from (0-based) index i on
WithoutRange(s, i, k) == SubSeq(s, 1, i) \o SubSeq(s, i + k + 1, Len(s))

\* C11: for every index and k with index + k <= Count() (k = 0 and index = Count()
\* included), RemoveRange(index, k) yields old[0..index) ++ old[index+k..count) with
\* Count() less by exactly k and Capacity() as it was.
C11_RemoveRangeInside ==
    [][\A index \in Indices, count \in Indices :
          (call'.op = "RemoveRange" /\ index + count <= this._Count
              /\ RemoveRangeCall(index, count))
              => /\ call'.status = "ok"
                 /\ Items(this') = WithoutRange(Items(this), index, count)
                 /\ this'._Count = this._Count - count
                 /\ this'._Capacity = this._Capacity]_vars

\* a RemoveRange has taken elements out of a list and left at least two, the first
\* and the last of them different
C11_Witness ==
    /\ call.op = "RemoveRange" /\ call.path = "shift" /\ ~ub
    /\ this._Count >= 2
    /\ Items(this)[1] # Items(this)[this._Count]

\* the (0-based) index of the first element of s that equals v
FirstAt(s, v) == CHOOSE i \in 0 .. Len(s) - 1 :
                    s[i + 1] = v /\ \A j \in 1 .. i : s[j] # v

\* C12: Remove(x) never raises an error; where no element equals x it returns false
\* and leaves the elements, Count() and Capacity() as they were; otherwise it returns
\* true and leaves the list without the first occurrence of x, later ones retained.
C12_RemoveFirstOccurrence ==
    [][\A what \in Values :
          call'.op = "Remove" /\ RemoveCall(what)
              => /\ call'.status = "ok"
                 /\ IF \E k \in 1 .. this._Count : Items(this)[k] = what
                    THEN /\ call'.ret = 1
                         /\ Items(this') =
                                WithoutIndex(Items(this), FirstAt(Items(this), what))
                    ELSE /\ call'.ret = 0
                         /\ Items(this') = Items(this)
                         /\ this'._Count = this._Count
                         /\ this'._Capacity = this._Capacity]_vars

\* a Remove has found its value in a list and left at least two elements, the first
\* and the last of them different
C12_Witness ==
    /\ call.op = "Remove" /\ call.ret = 1 /\ ~ub
    /\ this._Count >= 2
    /\ Items(this)[1] # Items(this)[this._Count]

\* pos is the lowest (0-based) index of s whose element is in match, or npos where
\* there is none
IsLowest(s, match, pos) ==
    IF \E k \in 1 .. Len(s) : s[k] \in match
    THEN /\ pos < Len(s)
         /\ s[pos + 1] \in match
         /\ \A j \in 1 .. pos : s[j] \notin match
    ELSE pos = npos

\* pos is the highest (0-based) index of s whose element is in match, or npos where
\* there is none
IsHighest(s, match, pos) ==
    IF \E k \in 1 .. Len(s) : s[k] \in match
    THEN /\ pos < Len(s)
         /\ s[pos + 1] \in match
         /\ \A j \in pos + 2 .. Len(s) : s[j] \notin match
    ELSE pos = npos

\* C13: IndexOf and FindIndex return the lowest index whose element matches,
\* LastIndexOf and FindLastIndex the highest; each returns the sentinel, the greatest
\* value of the index type, exactly where no element of [0, Count()) matches, and the
\* sentinel is below Count() in no reachable state.
C13_IndexOrSentinel ==
    /\ [](~(npos < this._Count))
    /\ [][/\ \A what \in Values :
               call'.op = "IndexOf" /\ IndexOfCall(what)
                   => IsLowest(Items(this), {what}, call'.ret) /\ this' = this
          /\ \A what \in Values :
               call'.op = "LastIndexOf" /\ LastIndexOfCall(what)
                   => IsHighest(Items(this), {what}, call'.ret) /\ this' = this
          /\ \A match \in Predicates :
               call'.op = "FindIndex" /\ FindIndexCall(match)
                   => IsLowest(Items(this), match, call'.ret) /\ this' = this
          /\ \A match \in Predicates :
               call'.op = "FindLastIndex" /\ FindLastIndexCall(match)
                   => IsHighest(Items(this), match, call'.ret) /\ this' = this]_vars

\* LastIndexOf has found the later of two equal elements, with another element after it
C13_Witness ==
    /\ call.op = "LastIndexOf" /\ call.ret = 1 /\ ~ub
    /\ this._Count >= 3
    /\ Items(this)[1] = Items(this)[2]
    /\ Items(this)[3] # Items(this)[2]

\* the calls on the list this, and those on the list other
OnThis == {"Add", "RemoveAt", "Clear", "Resize", "Reverse"}

OnOther == {"other.Add", "other.RemoveAt", "other.Clear"}

\* the two lists point to no common buffer
Apart(L, M) == L.buf = 0 \/ L.buf # M.buf

\* C14: once other is made a copy of this, by copy construction or by copy assignment
\* over whatever other held, other == this holds and other has a buffer of its own;
\* and no call on the one list changes the elements or Count() of the other.
C14_CopyIsIndependent ==
    [][/\ call'.op \in {"List(const List&)", "operator=(const List&)"}
             => /\ call'.status = "ok" /\ ~ub'
                /\ Equal(other', this')
                /\ this' = this
                /\ Apart(other', this')
       /\ call'.op \in OnThis
             => Items(other') = Items(other) /\ other'._Count = other._Count
       /\ call'.op \in OnOther
             => Items(this') = Items(this) /\ this'._Count = this._Count]_vars

\* a copy assignment has replaced the buffer of other and left it two different elements
C14_Witness ==
    /\ call.op = "operator=(const List&)" /\ call.path = "realloc" /\ ~ub
    /\ other._Count >= 2
    /\ Items(other)[1] # Items(other)[2]
    /\ Items(other) = Items(this)

\* C15: after other = std::move(this) or the move construction of other from this,
\* this is empty, with Count() = 0, Capacity() = 0 and no storage, other holds the
\* elements, count, capacity and buffer this held, and the buffer other held before,
\* if it held one, has been released.
C15_MoveTransfers ==
    [][/\ call'.op \in {"List(List&&)", "operator=(List&&)"}
             => /\ call'.status = "ok" /\ ~ub'
                /\ this'._Count = 0 /\ this'._Capacity = 0
                /\ this'.isNull /\ this'.buf = 0
                /\ Items(other') = Items(this)
                /\ other'._Count = this._Count
                /\ other'._Capacity = this._Capacity
                /\ other'.buf = this.buf /\ other'.isNull = this.isNull
       /\ call'.op = "operator=(List&&)"
             => assign_move(other, this).released
                    = IF other.isNull THEN {} ELSE {other.buf}
       /\ call'.op = "List(List&&)"
             => List_move(this).released = {}]_vars

\* a move assignment has released the buffer of other and handed it two elements
C15_Witness ==
    /\ call.op = "operator=(List&&)" /\ call.path = "release" /\ ~ub
    /\ this = List_default
    /\ other._Count >= 2
    /\ Items(other)[1] # Items(other)[2]

\* s back to front
Reversed(s) == [k \in 1 .. Len(s) |-> s[Len(s) + 1 - k]]

\* C16: for a list of any length, after Reverse() element i is the element
\* Count()-1-i of before for every i in [0, Count()), a second Reverse() restores
\* the sequence, and Count() and Capacity() are as they were.
C16_Reverse ==
    [][call'.op = "Reverse" /\ ReverseCall
          => /\ Items(this') = Reversed(Items(this))
             /\ Items(Reverse(this').list) = Items(this)
             /\ this'._Count = this._Count
             /\ this'._Capacity = this._Capacity]_vars

\* a Reverse has run on a list of three elements, the first and last different
C16_Witness ==
    /\ call.op = "Reverse" /\ ~ub
    /\ this._Count = 3
    /\ Items(this)[1] # Items(this)[3]

\* C17: for every list, the empty one included, ConvertAll(f) returns a new list of
\* the same Count() whose element i is f of element i, leaves the list as it was,
\* and with f the identity returns a list that compares equal to it.
C17_ConvertAll ==
    [][\A converter \in Converters :
          call'.op = "ConvertAll" /\ ConvertAllCall(converter)
              => /\ call'.status = "ok" /\ ~ub'
                 /\ other'._Count = this._Count
                 /\ \A k \in 1 .. this._Count :
                        Items(other')[k] = converter[Items(this)[k]]
                 /\ this' = this
                 /\ Apart(other', this')
                 /\ (converter = [v \in Values |-> v] => Equal(other', this))]_vars

\* a ConvertAll has made a list of two different elements out of two others
C17_Witness ==
    /\ call.op = "ConvertAll" /\ ~ub
    /\ other._Count >= 2
    /\ Items(other)[1] # Items(other)[2]
    /\ Items(other)[1] # Items(this)[1]

\* s with the sequence t put in front of its element of (0-based) index i
WithInsertedRange(s, i, t) == SubSeq(s, 1, i) \o t \o SubSeq(s, i + 1, Len(s))

\* C18: for every index < Count() and every source range of add_count >= 0 elements,
\* InsertRange(index, source) yields old[0..index) ++ source ++ old[index..count)
\* with Count() greater by add_count and Count() <= Capacity(), in the branch that
\* shifts in place and in the one that reallocates.
C18_InsertRangeInside ==
    [][/\ \A index \in Indices, what \in Sources, fromPtr \in Values :
             (call'.op = "InsertRange" /\ index < this._Count
                 /\ InsertRangeCall(index, what, fromPtr))
                 => /\ Items(this') = WithInsertedRange(Items(this), index, what)
                    /\ this'._Count = this._Count + Len(what)
                    /\ this'._Count <= this'._Capacity
       /\ \A index \in Indices, what \in Sources :
             (call'.op = "InsertRangeMove" /\ index < this._Count
                 /\ InsertRangeMoveCall(index, what))
                 => /\ Items(this') = WithInsertedRange(Items(this), index, what)
                    /\ this'._Count = this._Count + Len(what)
                    /\ this'._Count <= this'._Capacity]_vars

\* the list after n calls of Add(what)
RECURSIVE AddTimes(_, _, _)
AddTimes(L, what, n) ==
    IF n = 0 THEN L ELSE AddTimes(Add(L, what).list, what, n - 1)

\* C19: Clear() leaves Count() = 0, and Capacity() and the buffer as they were,
\* nothing deallocated, so that up to Capacity() calls of Add that follow reallocate
\* nothing.
C19_ClearKeepsBuffer ==
    [][call'.op = "Clear" /\ ClearCall
          => /\ this'._Count = 0
             /\ this'._Capacity = this._Capacity
             /\ this'.buf = this.buf /\ this'.isNull = this.isNull
             /\ Len(this'._Elems) = Len(this._Elems)
             /\ \A n \in 0 .. this._Capacity, what \in Values :
                    /\ AddTimes(this', what, n).buf = this.buf
                    /\ AddTimes(this', what, n)._Capacity = this._Capacity
                    /\ AddTimes(this', what, n)._Count = n]_vars

\* a Clear has emptied a list of at least three slots
C19_Witness ==
    /\ call.op = "Clear" /\ ~ub
    /\ this._Capacity >= 3
    /\ this.buf # 0

\* C20: in every reachable state of a list, after any sequence of construction with
\* an initial size, copy construction, Add, Clear, Resize, move and the other public
\* operations, Capacity() = 0 implies that the list has no buffer: _Elems is null.
C20_NoCapacityNoBuffer ==
    /\ this._Capacity = 0 => this.isNull
    /\ other._Capacity = 0 => other.isNull

\* C21: AddRange(source) with add_count elements appends them in order after the
\* elements the list holds, which stay, and Count() grows by add_count; Capacity() is
\* then at least Count(); the capacity changes only where add_count exceeds the free
\* space Capacity() - Count(), and is then exactly 2 * (old Count()) + add_count.
C21_AddRangeAppends ==
    [][\A what \in Sources :
          call'.op = "AddRange" /\ AddRangeCall(what)
              => /\ call'.status = "ok"
                 /\ Items(this') = Items(this) \o what
                 /\ this'._Count = this._Count + Len(what)
                 /\ this'._Capacity >= this'._Count
                 /\ (Len(what) <= this._Capacity - this._Count
                        => this'._Capacity = this._Capacity)
                 /\ (Len(what) > this._Capacity - this._Count
                        => this'._Capacity = 2 * this._Count + Len(what))]_vars

\* an AddRange has grown a list that held an element and appended to it
C21_Witness ==
    /\ call.op = "AddRange" /\ call.path = "grow" /\ ~ub
    /\ this._Count >= 3
    /\ this._Capacity > this._Count

\* c is the least power of two that is at least n
IsLeastPowerOfTwo(c, n) ==
    \E e \in 0 .. SizeBits :
        /\ c = 2 ^ e
        /\ c >= n
        /\ (e > 0 => 2 ^ (e - 1) < n)

\* C22: Add changes Capacity() only where Count() = Capacity() before the call, and
\* then to exactly 1 from 0 and to exactly twice the old capacity otherwise; so after
\* N >= 1 calls of Add on a list that starts empty Capacity() is the least power of
\* two that is at least N, and Add reallocates exactly where it doubles.
C22_AddGrowthPolicy ==
    /\ [](onlyAdds /\ Len(adds) >= 1 => IsLeastPowerOfTwo(this._Capacity, Len(adds)))
    /\ [][\A what \in Values :
              call'.op = "Add" /\ AddCall(what)
                  => /\ (this._Count # this._Capacity
                            => this'._Capacity = this._Capacity /\ this'.buf = this.buf)
                     /\ (this._Count = this._Capacity /\ this._Capacity = 0
                            => this'._Capacity = 1)
                     /\ (this._Count = this._Capacity /\ this._Capacity # 0
                            => /\ this'._Capacity = 2 * this._Capacity
                               /\ this'.buf # this.buf)]_vars

\* the third Add on a list that started empty has doubled the capacity a second time
C22_Witness ==
    /\ onlyAdds /\ call.op = "Add" /\ call.path = "grow" /\ ~ub
    /\ Len(adds) = 3
    /\ this._Capacity = 4

\* the elements of s at the (0-based) indices below end form a max-heap
IsMaxHeap(s, end) ==
    \A k \in 0 .. end - 1 :
        /\ (2 * k + 1 < end => s[k + 1] >= s[2 * k + 2])
        /\ (2 * k + 2 < end => s[k + 1] >= s[2 * k + 3])

\* every turn of the loop leaves what the rest of the loop will make of the buffer
HeapSortTurnsAgree ==
    [][call.status = "running"
          => HeapLoop(this'._Elems, frame'.start, frame'.end, DefaultCompare)
                = HeapLoop(this._Elems, frame.start, frame.end, DefaultCompare)]_vars

\* C23: heap sort in the natural order: the outer loop terminates for every Count();
\* when the build phase ends, start at 0 and its sift-down done, [0, Count()) is a
\* max-heap; and after each extraction step [end, Count()) is in non-decreasing
\* order, each of its elements is >= every element of [0, end), and [0, end) is a
\* max-heap again.
C23_HeapSortLoop ==
    /\ [](call.status = "running" /\ frame.start = 0 /\ frame.end = this._Count
             => IsMaxHeap(Items(this), this._Count))
    /\ [](call.status = "running" /\ frame.end < this._Count
             => /\ \A k \in frame.end + 1 .. this._Count - 1 :
                      Items(this)[k] <= Items(this)[k + 1]
                /\ \A k \in frame.end + 1 .. this._Count, j \in 1 .. frame.end :
                      Items(this)[k] >= Items(this)[j]
                /\ IsMaxHeap(Items(this), frame.end))
    /\ (call.status = "running" ~> call.status # "running")

\* two elements have been extracted from a heap of at least four, not all equal
C23_Witness ==
    /\ call.status = "running"
    /\ this._Count >= 4
    /\ frame.end = this._Count - 2
    /\ Items(this)[1] # Items(this)[this._Count]

\* the call d of deallocate hands over a null handle, or the buffer the list L holds
\* with the number of elements it was allocated for
Outstanding(d, L) ==
    \/ d.buf = 0
    \/ d.buf = L.buf /\ d.n = Len(L._Elems)

\* the functions of two lists give back the buffers their calls of deallocate name
DeallocateReleases ==
    /\ {d.buf : d \in assign_copy_deallocate(other, this)} = assign_copy(other, this).released
    /\ {d.buf : d \in assign_move_deallocate(other)} = assign_move(other, this).released
    /\ {d.buf : d \in List_destructor_deallocate(other)} = List_destructor(other).released

\* C24: over every sequence of public operations, each call deallocate(buffer, n)
\* hands over a buffer that is outstanding, with the n it was obtained with from
\* allocate(n): no size mismatch and no double release, in the reallocating branches
\* of Insert and InsertRange as everywhere else.
C24_DeallocateMatchesAllocate ==
    /\ [](this.buf # 0 => this.buf # other.buf)
    /\ [][/\ \A what \in Values :
              call'.op = "Add" /\ AddCall(what)
                  => \A d \in Add_deallocate(this) : Outstanding(d, this)
          /\ \A index \in Indices, what \in Values :
              call'.op = "Insert" /\ InsertCall(index, what)
                  => \A d \in Insert_deallocate(this, index) : Outstanding(d, this)
          /\ \A n \in 0 .. MaxCap :
              call'.op = "Resize" /\ ResizeCall(n)
                  => \A d \in Resize_deallocate(this, n) : Outstanding(d, this)
          /\ \A what \in Sources :
              call'.op = "AddRange" /\ AddRangeCall(what)
                  => \A d \in AddRange_deallocate(this, what) : Outstanding(d, this)
          /\ \A index \in Indices, what \in Sources, fromPtr \in Values :
              call'.op = "InsertRange" /\ InsertRangeCall(index, what, fromPtr)
                  => \A d \in InsertRange_deallocate(this, index, what) :
                         Outstanding(d, this)
          /\ \A index \in Indices, what \in Sources :
              call'.op = "InsertRangeMove" /\ InsertRangeMoveCall(index, what)
                  => \A d \in InsertRange_deallocate(this, index, what) :
                         Outstanding(d, this)
          /\ call'.op = "operator=(const List&)" /\ CopyAssignCall
                  => \A d \in assign_copy_deallocate(other, this) : Outstanding(d, other)
          /\ call'.op = "operator=(List&&)" /\ MoveAssignCall
                  => \A d \in assign_move_deallocate(other) : Outstanding(d, other)
          /\ call'.op = "~List" /\ DestructorCall
                  => \A d \in List_destructor_deallocate(other) : Outstanding(d, other)]_vars

\* the same, the two overloads of InsertRange left aside
DeallocateMatchesElsewhere ==
    [][call'.op \notin {"InsertRange", "InsertRangeMove"}
          => /\ \A what \in Values :
                 call'.op = "Add" /\ AddCall(what)
                     => \A d \in Add_deallocate(this) : Outstanding(d, this)
             /\ \A index \in Indices, what \in Values :
                 call'.op = "Insert" /\ InsertCall(index, what)
                     => \A d \in Insert_deallocate(this, index) : Outstanding(d, this)
             /\ \A n \in 0 .. MaxCap :
                 call'.op = "Resize" /\ ResizeCall(n)
                     => \A d \in Resize_deallocate(this, n) : Outstanding(d, this)
             /\ \A what \in Sources :
                 call'.op = "AddRange" /\ AddRangeCall(what)
                     => \A d \in AddRange_deallocate(this, what) : Outstanding(d, this)
             /\ call'.op = "operator=(const List&)" /\ CopyAssignCall
                     => \A d \in assign_copy_deallocate(other, this) : Outstanding(d, other)
             /\ call'.op = "operator=(List&&)" /\ MoveAssignCall
                     => \A d \in assign_move_deallocate(other) : Outstanding(d, other)
             /\ call'.op = "~List" /\ DestructorCall
                     => \A d \in List_destructor_deallocate(other) : Outstanding(d, other)]_vars

====
